---- MODULE Spec2Model ----
(***************************************************************************)
(* Model of src/common/utility.py: the value-list formatter                *)
(* (_prepare_for_insert), the insert executor (insert_into_db), the        *)
(* dry-run validator (dry_insert_into_db) and the table describer          *)
(* (describe_table), together with the part of the database driver and of  *)
(* the database that these functions talk to.                              *)
(*                                                                         *)
(* Python strings are sequences of one-character strings, so that          *)
(* formatting and parsing are computed and not assumed.                    *)
(***************************************************************************)
EXTENDS Integers, Sequences, FiniteSets, TLC

\* ------------------------------------------------------------------ bounds
\* Largest number of rows / columns of an input array.
MaxRows == 4
MaxCols == 2
\* Input arrays are filled from a value pool starting at offset 0..MaxSeed.
MaxSeed == 2
\* Largest number of rows the table can hold (the database's capacity).
MaxTableRows == 5

\* ----------------------------------------------------------------- strings
Min(a, b) == IF a < b THEN a ELSE b

Digits == <<"0", "1", "2", "3", "4", "5", "6", "7", "8", "9">>

RECURSIVE NatStr(_)
NatStr(n) ==
    IF n < 10 THEN <<Digits[n + 1]>>
    ELSE NatStr(n \div 10) \o <<Digits[(n % 10) + 1]>>

\* str() of an integer, as numpy's astype(str) renders an int64.
IntStr(n) == IF n < 0 THEN <<"-">> \o NatStr(-n) ELSE NatStr(n)

\* sep.join(parts)
RECURSIVE Join(_, _)
Join(parts, sep) ==
    IF Len(parts) = 0 THEN << >>
    ELSE IF Len(parts) = 1 THEN parts[1]
    ELSE parts[1] \o sep \o Join(Tail(parts), sep)

CommaSpace == <<",", " ">>

\* ------------------------------------------------------------ input arrays
\* A numpy array: its shape, its dtype ("int" or "str") and, for a
\* 2-dimensional array, its cells as a sequence of rows.
IntPool == <<3, -1, 10, 7, 0>>
StrPool == <<<<"a">>, <<"7">>, <<"o", "'", "k">>, <<"1", "2">>, << >>>>

Pool(dtype) == IF dtype = "int" THEN IntPool ELSE StrPool

Array2D(r, c, dtype, seed) ==
    [shape |-> <<r, c>>,
     dtype |-> dtype,
     cells |-> [i \in 1..r |->
                  [j \in 1..c |->
                     Pool(dtype)[((seed + (i - 1) * c + (j - 1)) % Len(Pool(dtype))) + 1]]]]

\* Arrays of rank 0, 1 and 3; their cells are never read.
OtherRankArrays ==
    { [shape |-> s, dtype |-> "int", cells |-> << >>] : s \in {<< >>, <<2>>, <<1, 2, 1>>} }

\* [[1,2],[3,4],[5,6],[7,8]] and [["a","b"]]
ExampleArray ==
    [shape |-> <<4, 2>>, dtype |-> "int",
     cells |-> <<<<1, 2>>, <<3, 4>>, <<5, 6>>, <<7, 8>>>>]

ExampleStrArray ==
    [shape |-> <<1, 2>>, dtype |-> "str", cells |-> << << <<"a">>, <<"b">> >> >>]

Arrays ==
    { Array2D(r, c, d, s) : r \in 0..MaxRows, c \in 0..MaxCols,
                            d \in {"int", "str"}, s \in 0..MaxSeed }
    \cup OtherRankArrays \cup {ExampleArray, ExampleStrArray}

NoArray == [shape |-> << >>, dtype |-> "int", cells |-> << >>]

\* ------------------------------------------------- _prepare_for_insert
\* assert len(data.shape) == 2
\* Faulty variant: any rank of at least 2 passes.
RankOkLoose(data) == Len(data.shape) >= 2

RankOk(data) == Len(data.shape) = 2

\* "'" + data + "'": numpy's add has a loop for two string arrays and none
\* for a string and a number.
CanQuote(data) == data.dtype = "str"

Quoted(data) ==
    [data EXCEPT !.cells = [i \in DOMAIN data.cells |->
                              [j \in DOMAIN data.cells[i] |->
                                 <<"'">> \o data.cells[i][j] \o <<"'">>]]]

\* data_.astype(str)
AsTypeStr(data) ==
    [i \in DOMAIN data.cells |->
       [j \in DOMAIN data.cells[i] |->
          IF data.dtype = "int" THEN IntStr(data.cells[i][j]) ELSE data.cells[i][j]]]

\* lambda x: "(" + ", ".join(x) + ")"
WrapRow(x) == <<"(">> \o Join(x, CommaSpace) \o <<")">>

\* Faulty variant: the rows are joined without their parentheses.
PrepareForInsertNoParens(data, string_array) ==
    IF ~RankOk(data) THEN [ok |-> FALSE, err |-> "AssertionError", value |-> << >>]
    ELSE IF string_array /\ ~CanQuote(data)
    THEN [ok |-> FALSE, err |-> "UFuncTypeError", value |-> << >>]
    ELSE LET data_ == IF string_array THEN Quoted(data) ELSE data
             strs == AsTypeStr(data_)
         IN  [ok |-> TRUE, err |-> "",
              value |-> Join([i \in DOMAIN strs |-> Join(strs[i], CommaSpace)], CommaSpace)]

\* Faulty variant: the values are quoted whatever the string flag.
PrepareForInsertQuoteAlways(data, string_array) ==
    IF ~RankOk(data) THEN [ok |-> FALSE, err |-> "AssertionError", value |-> << >>]
    ELSE IF ~CanQuote(data)
    THEN [ok |-> FALSE, err |-> "UFuncTypeError", value |-> << >>]
    ELSE [ok |-> TRUE, err |-> "",
          value |-> Join([i \in DOMAIN data.cells |-> WrapRow(AsTypeStr(Quoted(data))[i])],
                         CommaSpace)]

PrepareForInsert(data, string_array) ==
    IF ~RankOk(data) THEN [ok |-> FALSE, err |-> "AssertionError", value |-> << >>]
    ELSE IF string_array /\ ~CanQuote(data)
    THEN [ok |-> FALSE, err |-> "UFuncTypeError", value |-> << >>]
    ELSE LET data_ == IF string_array THEN Quoted(data) ELSE data
             strs == AsTypeStr(data_)
         IN  [ok |-> TRUE, err |-> "",
              value |-> Join([i \in DOMAIN strs |-> WrapRow(strs[i])], CommaSpace)]

\* ------------------------------------------------------------ the database
\* One table exists, "t"; the name "nope" is the name of no table.  Its
\* columns are integer columns.
ExistingTable == "t"
TableNames == {"t", "nope"}

ColName(i) == <<"c">> \o IntStr(i)
ColNames(k) == [i \in 1..k |-> ColName(i)]

\* The row stored under key x in a table of k columns.
KeyRow(k, x) == [j \in 1..k |-> IF j = 1 THEN x ELSE x % 2]
InitKeys == {<< >>, <<5>>, <<5, 2>>, <<2, 2>>, <<5, 2, 8>>}
InitTables(k) == { [i \in 1..Len(keys) |-> KeyRow(k, keys[i])] : keys \in InitKeys }

DigitVal(ch) == CHOOSE d \in 0..9 : Digits[d + 1] = ch
IsDigit(ch) == \E d \in 0..9 : Digits[d + 1] = ch

RECURSIVE ParseNat(_)
ParseNat(s) ==
    IF Len(s) = 0 THEN 0
    ELSE ParseNat(SubSeq(s, 1, Len(s) - 1)) * 10 + DigitVal(s[Len(s)])

IsNatLiteral(s) == Len(s) >= 1 /\ \A i \in 1..Len(s) : IsDigit(s[i])
IsIntLiteral(s) ==
    \/ IsNatLiteral(s)
    \/ Len(s) >= 2 /\ s[1] = "-" /\ IsNatLiteral(Tail(s))
ParseInt(s) == IF s[1] = "-" THEN 0 - ParseNat(Tail(s)) ELSE ParseNat(s)

IsQuoted(s) == Len(s) >= 2 /\ s[1] = "'" /\ s[Len(s)] = "'"
Unquote(s) == IF IsQuoted(s) THEN SubSeq(s, 2, Len(s) - 1) ELSE s

\* A literal an integer column accepts: 7, -1, '7'.
LiteralOk(s) == IsIntLiteral(Unquote(s))
LiteralValue(s) == ParseInt(Unquote(s))

FirstIndex(s, ch) ==
    IF \E i \in 1..Len(s) : s[i] = ch
    THEN CHOOSE i \in 1..Len(s) : s[i] = ch /\ \A k \in 1..(i - 1) : s[k] # ch
    ELSE 0

FirstCommaSpace(s) ==
    IF \E i \in 1..(Len(s) - 1) : s[i] = "," /\ s[i + 1] = " "
    THEN CHOOSE i \in 1..(Len(s) - 1) :
            /\ s[i] = "," /\ s[i + 1] = " "
            /\ \A k \in 1..(i - 1) : ~(s[k] = "," /\ s[k + 1] = " ")
    ELSE 0

RECURSIVE SplitCommaSpace(_)
SplitCommaSpace(s) ==
    LET i == FirstCommaSpace(s)
    IN  IF i = 0 THEN <<s>>
        ELSE <<SubSeq(s, 1, i - 1)>> \o SplitCommaSpace(SubSeq(s, i + 2, Len(s)))

\* The rows of a VALUES list "(..), (..)", each a sequence of literals; a
\* text that is no VALUES list is a syntax error.
RECURSIVE ParseValues(_)
ParseValues(s) ==
    LET bad == [ok |-> FALSE, rows |-> << >>]
        p == FirstIndex(s, ")")
    IN  IF Len(s) < 2 \/ s[1] # "(" \/ p = 0 THEN bad
        ELSE LET row == SplitCommaSpace(SubSeq(s, 2, p - 1))
                 rest == SubSeq(s, p + 1, Len(s))
             IN  IF Len(rest) = 0 THEN [ok |-> TRUE, rows |-> <<row>>]
                 ELSE IF Len(rest) >= 2 /\ rest[1] = "," /\ rest[2] = " "
                 THEN LET more == ParseValues(SubSeq(rest, 3, Len(rest)))
                      IN  IF more.ok THEN [ok |-> TRUE, rows |-> <<row>> \o more.rows]
                          ELSE bad
                 ELSE bad

\* What the database does with INSERT INTO <table> VALUES <values> inside a
\* transaction whose view of the table is tx: the statement is accepted as a
\* whole or rejected as a whole.
DbInsert(stmt, sch, tx_) ==
    LET parsed == ParseValues(stmt.values)
        accepted ==
            /\ stmt.table = ExistingTable
            /\ parsed.ok
            /\ \A i \in 1..Len(parsed.rows) :
                  /\ Len(parsed.rows[i]) = Len(sch)
                  /\ \A j \in 1..Len(sch) : LiteralOk(parsed.rows[i][j])
            /\ Len(tx_) + Len(parsed.rows) <= MaxTableRows
    IN  IF accepted
        THEN [ok |-> TRUE,
              tx |-> tx_ \o [i \in 1..Len(parsed.rows) |->
                               [j \in 1..Len(sch) |-> LiteralValue(parsed.rows[i][j])]]]
        ELSE [ok |-> FALSE, tx |-> tx_]

\* Whether the named table has the named column, and which one it is.
HasColumn(sch, name) == \E i \in 1..Len(sch) : sch[i] = name
ColIndex(sch, name) == CHOOSE i \in 1..Len(sch) : sch[i] = name

\* information_schema.columns for a table name: nothing for an unknown one.
DbColumns(name, sch) == IF name = ExistingTable THEN sch ELSE << >>
DbColumnInfo(name, sch) ==
    [i \in 1..Len(DbColumns(name, sch)) |-> <<sch[i], "integer", "NO">>]

\* ORDER BY <col> <dir> LIMIT 1: the rows the database may answer with, one
\* of those holding the extreme value (any of them when there are ties).
LimitOne(tx_, c, dir) ==
    { tx_[i] : i \in { k \in 1..Len(tx_) :
                         \A m \in 1..Len(tx_) :
                            IF dir = "ASC" THEN tx_[k][c] <= tx_[m][c]
                            ELSE tx_[k][c] >= tx_[m][c] } }

\* (... ORDER BY dirs[1] LIMIT 1) UNION ALL (... ORDER BY dirs[2] LIMIT 1)
DbFirstLast(stmt, sch, tx_) ==
    LET c == ColIndex(sch, stmt.order)
    IN  IF Len(tx_) = 0 THEN { << >> }
        ELSE { <<a, b>> : a \in LimitOne(tx_, c, stmt.dirs[1]),
                          b \in LimitOne(tx_, c, stmt.dirs[2]) }

\* ------------------------------------------------------------- statements
Stmt(kind, name, values, order, dirs) ==
    [kind |-> kind, table |-> name, values |-> values, order |-> order, dirs |-> dirs]

\* f"INSERT INTO {table} VALUES {insert_values}"
InsertSql(name, values) == Stmt("INSERT", name, values, << >>, << >>)

\* SELECT column_name FROM information_schema.columns WHERE table_name = ..
\* Faulty variant: a statement that writes.
ColumnNamesSqlDelete(name) == Stmt("DELETE", name, << >>, << >>, << >>)

ColumnNamesSql(name) == Stmt("SELECT column_name", name, << >>, << >>, << >>)

\* SELECT column_name, data_type, is_nullable FROM information_schema.columns
ColumnInfoSql(name) == Stmt("SELECT column_info", name, << >>, << >>, << >>)

\* SELECT COUNT(*) FROM "<table>"
CountSql(name) == Stmt("SELECT COUNT", name, << >>, << >>, << >>)

\* (SELECT * .. ORDER BY .. ASC LIMIT 1) UNION ALL (SELECT * .. DESC LIMIT 1)
\* Faulty variant: the two halves in the other order.
FirstLastSqlDescFirst(name, order) ==
    Stmt("SELECT first_last", name, << >>, order, <<"DESC", "ASC">>)

FirstLastSql(name, order) ==
    Stmt("SELECT first_last", name, << >>, order, <<"ASC", "DESC">>)

\* The transaction's view of the table after a statement the database
\* accepted.
DbApply(stmt, sch, tx_) ==
    IF stmt.kind = "INSERT" THEN DbInsert(stmt, sch, tx_).tx
    ELSE IF stmt.kind = "DELETE" /\ stmt.table = ExistingTable THEN << >>
    ELSE tx_

\* Whether the database accepts the statement.
DbAccepts(stmt, sch, tx_) ==
    IF stmt.kind = "INSERT" THEN DbInsert(stmt, sch, tx_).ok
    ELSE IF stmt.kind \in {"SELECT COUNT", "DELETE"} THEN stmt.table = ExistingTable
    ELSE IF stmt.kind = "SELECT first_last"
    THEN stmt.table = ExistingTable /\ HasColumn(sch, stmt.order)
    ELSE TRUE

\* ------------------------------------- with psycopg.connect(..) as conn
\* Connection.__exit__: rollback when an exception leaves the block, commit
\* otherwise; then close.
\* Faulty variant: the transaction is never committed.
ExitRowsNoCommit(raised, committed, tx_) == committed

ExitRows(raised, committed, tx_) == IF raised THEN committed ELSE tx_

\* Faulty variant: the connection is closed on the normal path only.
ExitConnLeakOnError(raised) == IF raised THEN "open" ELSE "closed"

ExitConn(raised) == "closed"

\* ------------------------------------------------- dry_insert_into_db
\* if len(cols) == 0: raise ..  elif len(cols) != data.shape[1]: raise ..
\* Faulty variant: the two tests in the other order.
DryVerdictMismatchFirst(cols_, data_) ==
    IF Len(cols_) # data_.shape[2]
    THEN [error |-> "ValueError: mismatch", counts |-> <<Len(cols_), data_.shape[2]>>]
    ELSE IF Len(cols_) = 0
    THEN [error |-> "ValueError: does not exist", counts |-> << >>]
    ELSE [error |-> "", counts |-> << >>]

DryVerdict(cols_, data_) ==
    IF Len(cols_) = 0
    THEN [error |-> "ValueError: does not exist", counts |-> << >>]
    ELSE IF Len(cols_) # data_.shape[2]
    THEN [error |-> "ValueError: mismatch", counts |-> <<Len(cols_), data_.shape[2]>>]
    ELSE [error |-> "", counts |-> << >>]

Ellipsis == <<".", ".", ".">>

\* np.concat([data.astype(str)[:3], np.full((1, len(cols)), "...")], axis=0)
\* tabulated under the column names, then "Insertion shape is valid."
\* Faulty variant: every row is previewed.
DryPreviewAllRows(cols_, data_) ==
    [headers |-> cols_,
     body |-> AsTypeStr(data_) \o << [j \in 1..Len(cols_) |-> Ellipsis] >>,
     valid |-> TRUE]

DryPreview(cols_, data_) ==
    [headers |-> cols_,
     body |-> SubSeq(AsTypeStr(data_), 1, Min(3, Len(AsTypeStr(data_))))
              \o << [j \in 1..Len(cols_) |-> Ellipsis] >>,
     valid |-> TRUE]

NoPreview == [headers |-> << >>, body |-> << >>, valid |-> FALSE]

\* ------------------------------------------------------- describe_table
\* An exception inside the with block leaves it; otherwise the next
\* statement of the block runs.
\* Faulty variant: the block goes on after a failure.
AfterStepIgnoreError(failed, next) == next

AfterStep(failed, next) == IF failed THEN "exit" ELSE next

NoReport == [table |-> "", info |-> << >>, count |-> 0, headers |-> << >>, first_last |-> << >>]

OrderColumns == { ColName(i) : i \in 1..MaxCols } \cup { <<"x">> }

\* ------------------------------------------------------------------ state
VARIABLES
    fn,             \* the function being called, or "idle"
    pc,             \* the place in its body
    table,          \* argument: table name
    data,           \* argument: the array
    string_array,   \* argument: the string flag
    order_column,   \* argument: describe_table's column to order by
    conn,           \* this call's connection: "none", "open" or "closed"
    nconn,          \* connections this call has opened
    log,            \* statements this call has issued, with their outcome
    res,            \* rows of the last cursor
    insert_values,  \* local of insert_into_db
    cols,           \* local of dry_insert_into_db and describe_table
    table_info,     \* local of describe_table
    enties_count,   \* local of describe_table
    report,         \* describe_table's return value
    exc,            \* the exception leaving the with block, "" if none
    outcome,        \* how the call ended
    printed,        \* what dry_insert_into_db printed
    returned,       \* _prepare_for_insert's return value
    schema,         \* the table's column names
    rows,           \* the table's committed rows
    tx,             \* the table as the open transaction sees it
    rows0           \* the committed rows when the call began

args == <<fn, table, data, string_array, order_column>>
db == <<schema, rows, tx, rows0>>
locals == <<insert_values, cols, table_info, enties_count, res>>
outs == <<outcome, printed, returned, report>>
vars == <<args, pc, conn, nconn, log, exc, locals, outs, db>>

NoOutcome == [status |-> "none", error |-> "", counts |-> << >>]
Returned == [status |-> "returned", error |-> "", counts |-> << >>]
Raised(e, c) == [status |-> "raised", error |-> e, counts |-> c]

Init ==
    /\ fn = "idle" /\ pc = "idle"
    /\ table = "" /\ data = NoArray /\ string_array = FALSE /\ order_column = << >>
    /\ conn = "none" /\ nconn = 0 /\ log = << >> /\ res = << >>
    /\ insert_values = << >> /\ cols = << >> /\ table_info = << >> /\ enties_count = 0
    /\ report = NoReport /\ exc = ""
    /\ outcome = NoOutcome /\ printed = NoPreview /\ returned = << >>
    /\ \E k \in 1..MaxCols : schema = ColNames(k) /\ rows \in InitTables(k)
    /\ tx = rows /\ rows0 = rows

\* A caller calls one of the four functions.
Begin(f, p, t, d, s, o) ==
    /\ fn' = f /\ pc' = p
    /\ table' = t /\ data' = d /\ string_array' = s /\ order_column' = o
    /\ rows0' = rows
    /\ UNCHANGED <<conn, nconn, log, exc, locals, outs, schema, rows, tx>>

\* The call raises e.
Raise(e, c) == outcome' = Raised(e, c) /\ pc' = "done"

\* psycopg.connect(conn_str): a connection, or an error when the database
\* cannot be reached.
Connect(next, up) ==
    IF up
    THEN /\ conn' = "open" /\ nconn' = nconn + 1 /\ tx' = rows /\ pc' = next
         /\ UNCHANGED outcome
    ELSE /\ Raise("OperationalError", << >>)
         /\ UNCHANGED <<conn, nconn, tx>>

\* conn.execute(stmt): the statement reaches the database, which runs it or
\* rejects it; the driver may also fail (connection lost).
Execute(stmt, ok) ==
    /\ conn = "open"
    /\ log' = Append(log, [stmt |-> stmt, ok |-> ok, conn |-> nconn])
    /\ tx' = IF ok THEN DbApply(stmt, schema, tx) ELSE tx

\* ---------------------------------------------- _prepare_for_insert, called
PrepareCall ==
    /\ pc = "idle"
    /\ \E d \in Arrays, s \in BOOLEAN : Begin("prepare", "run", "", d, s, << >>)

PrepareRun ==
    /\ fn = "prepare" /\ pc = "run"
    /\ LET r == PrepareForInsert(data, string_array)
       IN  IF r.ok
           THEN returned' = r.value /\ outcome' = Returned /\ pc' = "done"
           ELSE Raise(r.err, << >>) /\ UNCHANGED returned
    /\ UNCHANGED <<args, conn, nconn, log, exc, locals, printed, report, db>>

\* ----------------------------------------------------------- insert_into_db
InsertCall ==
    /\ pc = "idle"
    /\ \E t \in TableNames, d \in Arrays, s \in BOOLEAN :
          Begin("insert", "assert", t, d, s, << >>)

\* line 62
InsertAssert ==
    /\ fn = "insert" /\ pc = "assert"
    /\ IF RankOk(data) THEN pc' = "format" /\ UNCHANGED outcome
       ELSE Raise("AssertionError", << >>)
    /\ UNCHANGED <<args, conn, nconn, log, exc, locals, printed, returned, report, db>>

\* line 66
InsertFormat ==
    /\ fn = "insert" /\ pc = "format"
    /\ LET r == PrepareForInsert(data, string_array)
       IN  IF r.ok
           THEN insert_values' = r.value /\ pc' = "connect" /\ UNCHANGED outcome
           ELSE Raise(r.err, << >>) /\ UNCHANGED insert_values
    /\ UNCHANGED <<args, conn, nconn, log, exc, cols, table_info, enties_count, res,
                   printed, returned, report, db>>

\* line 68
InsertConnect ==
    /\ fn = "insert" /\ pc = "connect"
    /\ \E up \in BOOLEAN : Connect("execute", up)
    /\ UNCHANGED <<args, log, exc, locals, printed, returned, report, schema, rows, rows0>>

\* line 70
InsertExecute ==
    /\ fn = "insert" /\ pc = "execute"
    /\ \E up \in BOOLEAN :
          LET stmt == InsertSql(table, insert_values)
              ok == up /\ DbAccepts(stmt, schema, tx)
          IN  /\ Execute(stmt, ok)
              /\ exc' = IF ok THEN "" ELSE "DatabaseError"
              /\ pc' = AfterStep(~ok, "exit")
    /\ UNCHANGED <<args, conn, nconn, locals, outs, schema, rows, rows0>>

\* The end of a with block, of any of the three functions: commit or
\* rollback, close; then the exception goes on to the caller, or the function
\* goes on (dry_insert_into_db, line 102) or returns (lines 71, 177).
ConnExit ==
    /\ pc = "exit"
    /\ conn' = ExitConn(exc # "")
    /\ rows' = ExitRows(exc # "", rows, tx)
    /\ tx' = rows'
    /\ IF exc # "" THEN Raise(exc, << >>)
       ELSE IF fn = "dry" THEN pc' = "check" /\ UNCHANGED outcome
       ELSE outcome' = Returned /\ pc' = "done"
    /\ UNCHANGED <<args, nconn, log, exc, locals, printed, returned, report, schema, rows0>>

\* ------------------------------------------------------- dry_insert_into_db
DryCall ==
    /\ pc = "idle"
    /\ \E t \in TableNames, d \in Arrays : Begin("dry", "assert", t, d, FALSE, << >>)

\* line 98
DryAssert ==
    /\ fn = "dry" /\ pc = "assert"
    /\ IF RankOk(data) THEN pc' = "connect" /\ UNCHANGED outcome
       ELSE Raise("AssertionError", << >>)
    /\ UNCHANGED <<args, conn, nconn, log, exc, locals, printed, returned, report, db>>

\* line 100
DryConnect ==
    /\ fn = "dry" /\ pc = "connect"
    /\ \E up \in BOOLEAN : Connect("execute", up)
    /\ UNCHANGED <<args, log, exc, locals, printed, returned, report, schema, rows, rows0>>

\* line 101
DryExecute ==
    /\ fn = "dry" /\ pc = "execute"
    /\ \E up \in BOOLEAN :
          LET stmt == ColumnNamesSql(table)
              ok == up /\ DbAccepts(stmt, schema, tx)
          IN  /\ Execute(stmt, ok)
              /\ res' = IF ok THEN DbColumns(table, schema) ELSE << >>
              /\ exc' = IF ok THEN "" ELSE "DatabaseError"
              /\ pc' = AfterStep(~ok, "exit")
    /\ UNCHANGED <<args, conn, nconn, insert_values, cols, table_info, enties_count,
                   outs, schema, rows, rows0>>

\* lines 102-107: res.fetchall() reads the rows the cursor already holds,
\* after the connection is closed
DryCheck ==
    /\ fn = "dry" /\ pc = "check"
    /\ cols' = res
    /\ LET v == DryVerdict(res, data)
       IN  IF v.error # "" THEN Raise(v.error, v.counts)
           ELSE pc' = "preview" /\ UNCHANGED outcome
    /\ UNCHANGED <<args, conn, nconn, log, exc, insert_values, table_info, enties_count,
                   res, printed, returned, report, db>>

\* lines 109-118
DryPrint ==
    /\ fn = "dry" /\ pc = "preview"
    /\ printed' = DryPreview(cols, data)
    /\ outcome' = Returned /\ pc' = "done"
    /\ UNCHANGED <<args, conn, nconn, log, exc, locals, returned, report, db>>

\* ----------------------------------------------------------- describe_table
DescribeCall ==
    /\ pc = "idle"
    /\ \E t \in TableNames, o \in OrderColumns :
          Begin("describe", "connect", t, NoArray, FALSE, o)

\* line 133
DescribeConnect ==
    /\ fn = "describe" /\ pc = "connect"
    /\ \E up \in BOOLEAN : Connect("schema", up)
    /\ UNCHANGED <<args, log, exc, locals, printed, returned, report, schema, rows, rows0>>

\* lines 134-151: the query, then arr[..., 0], an IndexError on an empty arr
DescribeSchema ==
    /\ fn = "describe" /\ pc = "schema"
    /\ \E up \in BOOLEAN :
          LET stmt == ColumnInfoSql(table)
              ok == up /\ DbAccepts(stmt, schema, tx)
              arr == IF ok THEN DbColumnInfo(table, schema) ELSE << >>
          IN  /\ Execute(stmt, ok)
              /\ res' = arr
              /\ IF ok /\ Len(arr) > 0
                 THEN /\ cols' = [i \in 1..Len(arr) |-> arr[i][1]]
                      /\ table_info' = arr
                      /\ exc' = ""
                 ELSE /\ exc' = IF ok THEN "IndexError" ELSE "DatabaseError"
                      /\ UNCHANGED <<cols, table_info>>
              /\ pc' = AfterStep(~(ok /\ Len(arr) > 0), "count")
    /\ UNCHANGED <<args, conn, nconn, insert_values, enties_count, outs, schema, rows, rows0>>

\* lines 153-154
DescribeCount ==
    /\ fn = "describe" /\ pc = "count"
    /\ \E up \in BOOLEAN :
          LET stmt == CountSql(table)
              ok == up /\ DbAccepts(stmt, schema, tx)
          IN  /\ Execute(stmt, ok)
              /\ res' = IF ok THEN <<Len(tx)>> ELSE << >>
              /\ enties_count' = IF ok THEN Len(tx) ELSE enties_count
              /\ exc' = IF ok THEN "" ELSE "DatabaseError"
              /\ pc' = AfterStep(~ok, "first_last")
    /\ UNCHANGED <<args, conn, nconn, insert_values, cols, table_info, outs,
                   schema, rows, rows0>>

\* lines 156-183: the query, its table, and the report the return names
DescribeFirstLast ==
    /\ fn = "describe" /\ pc = "first_last"
    /\ \E up \in BOOLEAN :
          LET stmt == FirstLastSql(table, order_column)
              ok == up /\ DbAccepts(stmt, schema, tx)
          IN  /\ Execute(stmt, ok)
              /\ IF ok
                 THEN \E r \in DbFirstLast(stmt, schema, tx) :
                         /\ res' = r
                         /\ report' = [table |-> table, info |-> table_info,
                                       count |-> enties_count, headers |-> cols,
                                       first_last |-> r]
                         /\ exc' = ""
                 ELSE /\ exc' = "DatabaseError"
                      /\ UNCHANGED <<res, report>>
              /\ pc' = AfterStep(~ok, "exit")
    /\ UNCHANGED <<args, conn, nconn, insert_values, cols, table_info, enties_count,
                   outcome, printed, returned, schema, rows, rows0>>

\* A behaviour is one call, begun in any of the initial states of the database;
\* pc = "done" is the state in which control is back with the caller.
Next ==
    \/ PrepareCall \/ PrepareRun
    \/ InsertCall \/ InsertAssert \/ InsertFormat \/ InsertConnect \/ InsertExecute
    \/ DryCall \/ DryAssert \/ DryConnect \/ DryExecute \/ DryCheck \/ DryPrint
    \/ DescribeCall \/ DescribeConnect \/ DescribeSchema \/ DescribeCount
    \/ DescribeFirstLast
    \/ ConnExit

Spec == Init /\ [][Next]_vars

\* =================================================================== claims
\* The formatter's output, once it has returned one: to a direct caller, or
\* to insert_into_db.
FormatterReturned ==
    \/ fn = "prepare" /\ outcome.status = "returned"
    \/ fn = "insert" /\ pc \in {"connect", "execute", "exit"}
    \/ fn = "insert" /\ pc = "done" /\ nconn > 0

Out == IF fn = "prepare" THEN returned ELSE insert_values

NRows == data.shape[1]
NCols == data.shape[2]

\* Reading the output by position; a position outside it reads as "".
At(s, i) == IF i \in 1..Len(s) THEN s[i] ELSE ""
Slice(s, from, n) == [k \in 1..n |-> At(s, from + k - 1)]

\* The text of one value, before any quoting.
ValueText(i, j) ==
    IF data.dtype = "int" THEN IntStr(data.cells[i][j]) ELSE data.cells[i][j]

\* The width of the rendering of value (i, j): two more when quoted.
CellWidth(i, j) == Len(ValueText(i, j)) + (IF string_array THEN 2 ELSE 0)

RECURSIVE CellsWidth(_, _)
CellsWidth(i, j) == IF j = 0 THEN 0 ELSE CellsWidth(i, j - 1) + CellWidth(i, j)

\* "(" cells joined by ", " ")"
GroupWidth(i) == 2 + CellsWidth(i, NCols) + 2 * (IF NCols > 0 THEN NCols - 1 ELSE 0)

RECURSIVE GroupStart(_)
GroupStart(i) == IF i = 1 THEN 1 ELSE GroupStart(i - 1) + GroupWidth(i - 1) + 2

CellStart(i, j) == GroupStart(i) + 1 + CellsWidth(i, j - 1) + 2 * (j - 1)

ExampleText ==
    <<"(", "1", ",", " ", "2", ")", ",", " ", "(", "3", ",", " ", "4", ")", ",", " ",
      "(", "5", ",", " ", "6", ")", ",", " ", "(", "7", ",", " ", "8", ")">>

CountOf(s, ch) == Cardinality({ k \in 1..Len(s) : s[k] = ch })

RECURSIVE QuotesInValues(_, _)
QuotesInValues(i, j) ==
    IF i = 0 THEN 0
    ELSE IF j = 0 THEN QuotesInValues(i - 1, NCols)
    ELSE QuotesInValues(i, j - 1) + CountOf(ValueText(i, j), "'")

ExampleStrText == <<"(", "'", "a", "'", ",", " ", "'", "b", "'", ")">>

\* Every rendered value stands between one pair of quotes with the flag on,
\* and bare with it off; no other quote is added.
QuotingAsFlagged ==
    /\ \A i \in 1..NRows : \A j \in 1..NCols :
          LET rendered == Slice(Out, CellStart(i, j), CellWidth(i, j))
          IN  IF string_array
              THEN rendered = <<"'">> \o ValueText(i, j) \o <<"'">>
              ELSE rendered = ValueText(i, j)
    /\ CountOf(Out, "'") =
          QuotesInValues(NRows, NCols) + (IF string_array THEN 2 * NRows * NCols ELSE 0)

\* C2, as stated: the formatter renders every 2-dimensional array, each
\* value between one pair of single quotes with the string flag on, and
\* without added quotes with the flag off.
C2_Original ==
    (fn = "prepare" /\ pc = "done" /\ Len(data.shape) = 2) =>
        outcome.status = "returned" /\ QuotingAsFlagged

\* C2, amended: with the string flag on the formatter renders the
\* 2-dimensional arrays of strings, each value between one leading and one
\* trailing single quote, itself unchanged and unescaped, and raises a type
\* error for a 2-dimensional array of numbers, rendering nothing; with the
\* flag off it renders every 2-dimensional array and adds no quote character.
\* [["a","b"]] with the flag on gives "('a', 'b')".
C2_QuotePair ==
    /\ FormatterReturned => QuotingAsFlagged
    /\ (fn = "prepare" /\ pc = "done" /\ Len(data.shape) = 2) =>
          IF string_array /\ data.dtype = "int"
          THEN outcome = Raised("UFuncTypeError", << >>) /\ returned = << >>
          ELSE outcome.status = "returned"
    /\ (FormatterReturned /\ data = ExampleStrArray /\ string_array)
          => Out = ExampleStrText

C2_Witness ==
    /\ fn = "prepare" /\ outcome.status = "returned" /\ string_array
    /\ NRows >= 2 /\ NCols >= 2
    /\ \E i \in 1..NRows : \E j \in 1..NCols : CountOf(ValueText(i, j), "'") > 0

\* A statement of this call that the database answered.
Answered(k) == k \in 1..Len(log) /\ log[k].ok

\* C3: an array whose rank is not 2 is rejected by the formatter, by
\* insert_into_db and by dry_insert_into_db with an AssertionError, and in
\* the latter two no connection is ever opened and no statement issued.
C3_RankRejected ==
    (fn \in {"prepare", "insert", "dry"} /\ Len(data.shape) # 2) =>
        /\ conn = "none" /\ nconn = 0 /\ log = << >>
        /\ rows = rows0 /\ tx = rows0
        /\ pc \in {"run", "assert", "done"}
        /\ pc = "done" => outcome = Raised("AssertionError", << >>)

C3_Witness ==
    /\ fn = "dry" /\ pc = "done" /\ Len(data.shape) = 3
    /\ outcome.error = "AssertionError"

\* C4: when the column-list query of a dry run answers with zero columns,
\* the call ends with the "does not exist" error, whatever the array's
\* numbers of rows and columns, and never with a mismatch error or a preview.
C4_NoSuchTable ==
    (fn = "dry" /\ Answered(1) /\ Len(res) = 0 /\ pc \in {"check", "preview", "done"}) =>
        /\ pc # "preview"
        /\ printed = NoPreview
        /\ pc = "done" => outcome = Raised("ValueError: does not exist", << >>)

C4_Witness ==
    /\ fn = "dry" /\ pc = "done" /\ table = "nope" /\ Answered(1)
    /\ NCols = 0 /\ NRows = MaxRows
    /\ outcome.error = "ValueError: does not exist"

\* C5: a dry run on a table of K >= 1 columns with an array of R rows and C
\* columns ends, if C # K, with the mismatch error naming K and C and no
\* preview, and if C = K, normally, with a preview under the K column names
\* whose body is the first min(R, 3) rows of the array, rendered, in order,
\* then one row of K ellipses, and the confirmation.
C5_MismatchOrPreview ==
    (fn = "dry" /\ pc = "done" /\ Answered(1) /\ Len(res) >= 1) =>
        IF NCols # Len(schema)
        THEN /\ outcome = Raised("ValueError: mismatch", <<Len(schema), NCols>>)
             /\ printed = NoPreview
        ELSE /\ outcome = Returned
             /\ printed.valid
             /\ printed.headers = schema
             /\ Len(printed.body) = Min(NRows, 3) + 1
             /\ \A i \in 1..Min(NRows, 3) :
                   /\ Len(printed.body[i]) = NCols
                   /\ \A j \in 1..NCols : printed.body[i][j] = ValueText(i, j)
             /\ printed.body[Len(printed.body)] = [j \in 1..Len(schema) |-> <<".", ".", ".">>]

C5_Witness ==
    /\ fn = "dry" /\ pc = "done" /\ printed.valid
    /\ NRows = MaxRows /\ NCols = 2 /\ Len(printed.body) = 4

\* C6: a call opens at most one connection, the connection is open only
\* inside the with block, and when control is back with the caller - after a
\* return, a ValueError or an error of a statement - it is closed.
C6_ConnectionReleased ==
    /\ nconn <= 1
    /\ conn = "open" => (nconn = 1 /\ pc \notin {"idle", "assert", "format", "connect",
                                                 "check", "preview", "done"})
    /\ pc = "done" => conn # "open"
    /\ (pc = "done" /\ nconn = 1) => conn = "closed"

C6_Witness ==
    /\ fn = "describe" /\ pc = "done" /\ outcome.error = "DatabaseError"
    /\ Len(log) = 3 /\ nconn = 1 /\ conn = "closed"

\* C7: insert_into_db issues one statement, an INSERT into the named table
\* whose VALUES list is the formatter's output for the whole array (one group
\* per row), and nothing before or after it; once connected it has issued
\* exactly that one when it ends.  If the statement fails the call raises the
\* statement's error and the table is as it was; if it succeeds the call
\* returns and the table is as it was followed by all rows of the array.
C7_SingleInsertAllOrNothing ==
    fn = "insert" =>
        /\ Len(log) <= 1
        /\ \A k \in 1..Len(log) :
              /\ log[k].stmt.kind = "INSERT"
              /\ log[k].stmt.table = table
              /\ log[k].stmt.values = insert_values
              /\ CountOf(log[k].stmt.values, "(") = NRows
        /\ (pc \in {"exit", "done"} /\ nconn = 1) => Len(log) = 1
        /\ (pc = "done" /\ Len(log) = 1 /\ ~log[1].ok) =>
              /\ outcome = Raised("DatabaseError", << >>)
              /\ rows = rows0
        /\ (pc = "done" /\ Len(log) = 1 /\ log[1].ok) =>
              /\ outcome = Returned
              /\ Len(rows) = Len(rows0) + NRows
              /\ \A i \in 1..Len(rows0) : rows[i] = rows0[i]
              /\ \A i \in 1..NRows :
                    /\ Len(rows[Len(rows0) + i]) = NCols
                    /\ \A j \in 1..NCols : IntStr(rows[Len(rows0) + i][j]) = ValueText(i, j)
        /\ (pc = "done" /\ outcome = Returned) => (Len(log) = 1 /\ log[1].ok)

C7_Witness ==
    /\ fn = "insert" /\ pc = "done" /\ outcome = Returned
    /\ NRows >= 2 /\ NCols = 2 /\ Len(rows0) >= 1 /\ Len(rows) = Len(rows0) + NRows

\* C8: dry_insert_into_db and describe_table issue SELECTs only, and the
\* table's rows are at every point of the call, and after it, the rows it
\* had when the call began.
C8_ReadOnly ==
    fn \in {"dry", "describe"} =>
        /\ rows = rows0 /\ tx = rows0
        /\ \A k \in 1..Len(log) :
              log[k].stmt.kind \in {"SELECT column_name", "SELECT column_info",
                                    "SELECT COUNT", "SELECT first_last"}

C8_Witness ==
    /\ fn = "dry" /\ pc = "done" /\ outcome = Returned /\ Len(rows0) >= 2

\* The order column of a describe_table call, when the table has it.
OrderIndex == CHOOSE c \in 1..Len(schema) : schema[c] = order_column
UniqueOrder == \A a, b \in 1..Len(rows) : a # b => rows[a][OrderIndex] # rows[b][OrderIndex]
DescribeReturned == fn = "describe" /\ pc = "done" /\ outcome = Returned

FirstIsMinLastIsMax ==
    /\ Len(report.first_last) = 2
    /\ \E a, b \in 1..Len(rows) :
          /\ report.first_last[1] = rows[a]
          /\ report.first_last[2] = rows[b]
          /\ \A m \in 1..Len(rows) :
                /\ rows[a][OrderIndex] <= rows[m][OrderIndex]
                /\ rows[m][OrderIndex] <= rows[b][OrderIndex]

\* C9, as stated: on a table of N rows with a unique numeric order column
\* the report's boundary rows are exactly two, the row of the least value of
\* the order column and then the row of the greatest.
C9_Original == (DescribeReturned /\ UniqueOrder) => FirstIsMinLastIsMax

\* C9, amended: on a table of N >= 1 rows with a unique numeric order column
\* the report's boundary rows are exactly two, the row of the least value of
\* the order column and then the row of the greatest (the one row twice when
\* N = 1); on an empty table the report has no boundary rows.
C9_FirstLast ==
    (DescribeReturned /\ UniqueOrder) =>
        /\ report.count = Len(rows)
        /\ IF Len(rows) >= 1 THEN FirstIsMinLastIsMax ELSE report.first_last = << >>

C9_Witness ==
    /\ DescribeReturned /\ UniqueOrder /\ Len(rows) = 3
    /\ report.first_last[1] = rows[2] /\ report.first_last[2] = rows[3]

\* C10: describe_table issues its statements on its one connection in the
\* order column query, count query, boundary query, each at most once; no
\* statement follows one that failed, none follows a column query that found
\* no column, and the call then raises and returns no report.  It returns
\* its report only after all three were answered.
C10_StatementOrder ==
    fn = "describe" =>
        /\ Len(log) <= 3
        /\ \A k \in 1..Len(log) :
              /\ log[k].stmt.kind =
                    <<"SELECT column_info", "SELECT COUNT", "SELECT first_last">>[k]
              /\ log[k].stmt.table = table
              /\ log[k].conn = 1
              /\ k < Len(log) => log[k].ok
        /\ (table # ExistingTable) => Len(log) <= 1
        /\ (pc = "done" /\ Len(log) >= 1 /\ ~log[Len(log)].ok) =>
              outcome = Raised("DatabaseError", << >>) /\ report = NoReport
        /\ (pc = "done" /\ table # ExistingTable /\ Answered(1)) =>
              outcome = Raised("IndexError", << >>) /\ report = NoReport
        /\ (pc = "done" /\ outcome = Returned) =>
              /\ Len(log) = 3 /\ \A k \in 1..3 : log[k].ok
              /\ report # NoReport
        /\ (pc = "done" /\ outcome.status = "raised") => report = NoReport

C10_Witness ==
    /\ fn = "describe" /\ pc = "done" /\ table = "nope"
    /\ Len(log) = 1 /\ log[1].ok /\ outcome.error = "IndexError"

====
